---- MODULE Spec2Model ----
(***************************************************************************)
(* MOA Accuracy Simulator (src/app.py): model of simulate_shots.           *)
(*                                                                         *)
(* Numbers.  The program computes in binary floating point; the model      *)
(* computes in fixed point and rounds after every operation, as floating   *)
(* point does, only coarser:                                               *)
(*   lengths (distance * sin, radius, x, y, target_size)  1 unit = 0.1 mm  *)
(*   distance                                             1 unit = 1 m     *)
(*   moa                                                  1 unit = 1 MOA   *)
(*   the angle of a shot, cos and sin                     1 unit = 10^-4   *)
(*   moa_radian and its sine                              1 unit = 10^-7   *)
(*   a value of random.random()     u / rngDenom, u in 0 .. rngDenom - 1    *)
(* The title's percentage is kept in hundredths of a percent, which is     *)
(* what round(..., 2) leaves of it.                                        *)
(* Every rounding is monotone, as IEEE rounding is.                        *)
(***************************************************************************)
EXTENDS Integers, Sequences, FiniteSets, TLC

\* ------------------------------------------------------------- bounds
\* Largest simulation_shots the runs are started with.
MaxShots == 2
\* Largest display cap (shots) the runs are started with.
MaxCap == 2
\* random.random() yields the values u / RngDenom, u in 0..RngDenom-1.
RngDenom == 3
\* simulation_shots, and the resolution of the generator, of the sweep runs.
SweepShots == 20

\* The two invocations of simulate_shots the model follows.
Runs == {1, 2}

VARIABLES
    simulation_shots,  \* module global, app.py:28
    shots,             \* module global, app.py:29
    distance,          \* [Runs -> Int]  argument of each invocation
    target_size,       \* [Runs -> Int]  argument of each invocation
    moa,               \* [Runs -> Int]  argument of each invocation
    rngDenom,          \* resolution of the random source
    tape,              \* the values the random source has produced, in order
    pos,               \* [Runs -> Nat]  how many values the run has consumed
    pc,                \* [Runs -> "start" | "loop" | "done" | "error"]
    fig,               \* [Runs -> "none" | "created" | "traced" | "titled"]
    i,                 \* [Runs -> Nat]  loop index
    hits,              \* [Runs -> Int]
    hits_x, hits_y, misses_x, misses_y,   \* [Runs -> Seq(Int)]
    radius, angle, x, y,                  \* [Runs -> Int]  the shot just drawn
    title,             \* [Runs -> hundredths of a percent | "none"]
    raised             \* [Runs -> exception raised | "none"]

args == <<distance, target_size, moa>>
globals == <<simulation_shots, shots>>
rng == <<rngDenom, tape>>
shot == <<radius, angle, x, y>>
locals == <<pc, fig, i, hits, hits_x, hits_y, misses_x, misses_y, shot, title, raised, pos>>
vars == <<args, globals, rng, locals>>

\* ------------------------------------------------------------- arithmetic
Abs(a) == IF a < 0 THEN -a ELSE a
Sign(a) == IF a < 0 THEN -1 ELSE 1
Min(a, b) == IF a <= b THEN a ELSE b

\* a / b rounded to the nearest unit, halves away from zero (b > 0).
RoundDiv(a, b) == Sign(a) * ((2 * Abs(a) + b) \div (2 * b))

RECURSIVE SqrtBetween(_, _, _)
SqrtBetween(n, lo, hi) ==
    IF lo >= hi THEN lo
    ELSE LET mid == (lo + hi + 1) \div 2
         IN IF mid * mid <= n THEN SqrtBetween(n, mid, hi)
            ELSE SqrtBetween(n, lo, mid - 1)

\* n ** 0.5, rounded down to a unit (n >= 0).
Sqrt(n) == SqrtBetween(n, 0, 46340)

\* ------------------------------------------------------------- math module
TrigScale == 10000
SinScale == 10000000
\* math.pi in units of 10^-7.
Pi == 31415927
\* 2 * math.pi and math.pi / 2 in units of 10^-4.
TwoPi == 62832
HalfPi == 15708

\* sin and cos of an angle r in [0, pi/2], by their Taylor series.
SinQ(r) ==
    LET r2 == (r * r) \div TrigScale
        t3 == (r * r2) \div (6 * TrigScale)
        t5 == (t3 * r2) \div (20 * TrigScale)
        t7 == (t5 * r2) \div (42 * TrigScale)
        t9 == (t7 * r2) \div (72 * TrigScale)
    IN r - t3 + t5 - t7 + t9

CosQ(r) ==
    LET r2 == (r * r) \div TrigScale
        c2 == r2 \div 2
        c4 == (c2 * r2) \div (12 * TrigScale)
        c6 == (c4 * r2) \div (30 * TrigScale)
        c8 == (c6 * r2) \div (56 * TrigScale)
    IN TrigScale - c2 + c4 - c6 + c8

\* math.cos(angle), math.sin(angle) for angle in [0, 2 pi).
Cos(ang) ==
    LET q == ang \div HalfPi
        r == ang % HalfPi
    IN CASE q = 0 -> CosQ(r)
         [] q = 1 -> -SinQ(r)
         [] q = 2 -> -CosQ(r)
         [] OTHER -> SinQ(r)

Sin(ang) ==
    LET q == ang \div HalfPi
        r == ang % HalfPi
    IN CASE q = 0 -> SinQ(r)
         [] q = 1 -> CosQ(r)
         [] q = 2 -> -SinQ(r)
         [] OTHER -> -CosQ(r)

\* math.radians(moa / 60): moa * pi / 10800.
MoaRadian(m) == RoundDiv(m * Pi, 10800)

\* math.sin(t) for the small angle t (|t| < 0.0046): t - t^3 / 6.
SinSmall(t) ==
    LET a == Abs(t)
    IN Sign(t) * (a - (((a * a) \div SinScale) * a) \div (6 * SinScale))

\* distance * math.sin(moa_radian / 2), in length units.
MaxRadius(d, m) == RoundDiv(d * SinSmall(RoundDiv(MoaRadian(m), 2)), 1000)

\* target_size / 2 (the sizes the model uses are even).
TargetRadius(size) == size \div 2

\* random.uniform(a, b) on the random value u / n:  a + (b - a) * random().
Uniform(a, b, u, n) == a + RoundDiv((b - a) * u, n)

\* ------------------------------------------------------------- one shot
\* Mutant of ShotRadius: the radius drawn so that the shots are uniform over
\* the area of the cone, max_radius * sqrt(random()).
ShotRadiusOverArea(d, m, u, n) ==
    RoundDiv(MaxRadius(d, m) * Sqrt((u * 10000) \div n), 100)

\* radius = random.uniform(0, distance * math.sin(moa_radian / 2))
ShotRadius(d, m, u, n) == Uniform(0, MaxRadius(d, m), u, n)

\* angle = random.uniform(0, 2 * math.pi)
ShotAngle(u, n) == Uniform(0, TwoPi, u, n)

\* x = radius * math.cos(angle);  y = radius * math.sin(angle)
ShotX(rad, ang) == RoundDiv(rad * Cos(ang), TrigScale)
ShotY(rad, ang) == RoundDiv(rad * Sin(ang), TrigScale)

\* (x**2 + y**2) ** 0.5
ShotDist(sx, sy) == Sqrt(sx * sx + sy * sy)

\* Mutants of IsHit: the boundary excluded; the test inverted.
IsHitStrict(sx, sy, tr) == ShotDist(sx, sy) < tr
IsHitOutside(sx, sy, tr) == ShotDist(sx, sy) >= tr

\* the test of line 60
IsHit(sx, sy, tr) == ShotDist(sx, sy) <= tr

\* Mutant of NewHits: the counter is not reset, it goes on from the value the
\* first invocation left.
StaleHits == hits[1]

\* hits = 0
NewHits == 0

\* Mutant of NextHits: hits += 1 under the test i < shots.
NextHitsDisplayed(h, hit, idx) == IF hit /\ idx < shots THEN h + 1 ELSE h

\* hits += 1: in the hit branch, for every index idx of the loop
NextHits(h, hit, idx) == IF hit THEN h + 1 ELSE h

\* Mutants of Displayed: i <= shots; no cap at all.
DisplayedOneMore(idx) == idx <= shots
DisplayedAll(idx) == TRUE

\* i < shots
Displayed(idx) == idx < shots

\* Mutant of Percent: the factor 100 forgotten.
PercentFraction(h, n) == IF h = 0 THEN 0 ELSE RoundDiv(h * 100, n)

\* round(hits / simulation_shots * 100, 2), in hundredths of a percent
\* (0 / n is 0.0 or -0.0 for every n # 0).
Percent(h, n) == IF h = 0 THEN 0 ELSE RoundDiv(h * 10000, n)

\* ------------------------------------------------------------- random source
\* The values a fresh draw for the angle is taken from: the angle 0 and the
\* last angle of the grid (any value of the grid for the radius).
AngleDraws(n) == {0, n - 1}

\* The run r takes the next two values of the random source: the values the
\* source produced at these two positions if it has produced them already,
\* fresh values otherwise.
Draw(r, u1, u2) ==
    /\ IF pos[r] + 2 <= Len(tape)
       THEN /\ u1 = tape[pos[r] + 1]
            /\ u2 = tape[pos[r] + 2]
            /\ tape' = tape
       ELSE /\ u2 \in AngleDraws(rngDenom)
            /\ tape' = tape \o <<u1, u2>>
    /\ pos' = [pos EXCEPT ![r] = @ + 2]
    /\ UNCHANGED rngDenom

\* ------------------------------------------------------------- simulate_shots
\* Lines 45-53: the figure is created and the accumulators are emptied.
SimulateSetup(r) ==
    /\ pc[r] = "start"
    /\ pc' = [pc EXCEPT ![r] = "loop"]
    /\ fig' = [fig EXCEPT ![r] = "created"]
    /\ i' = [i EXCEPT ![r] = 0]
    /\ hits' = [hits EXCEPT ![r] = NewHits]
    /\ hits_x' = [hits_x EXCEPT ![r] = <<>>]
    /\ hits_y' = [hits_y EXCEPT ![r] = <<>>]
    /\ misses_x' = [misses_x EXCEPT ![r] = <<>>]
    /\ misses_y' = [misses_y EXCEPT ![r] = <<>>]
    /\ UNCHANGED <<args, globals, rng, shot, title, raised, pos>>

\* Lines 55-67: one iteration of the loop.
SimulateShot(r) ==
    /\ pc[r] = "loop"
    /\ i[r] < simulation_shots
    /\ \E u1, u2 \in 0 .. (rngDenom - 1) :
         /\ Draw(r, u1, u2)
         /\ LET rad == ShotRadius(distance[r], moa[r], u1, rngDenom)
                ang == ShotAngle(u2, rngDenom)
                sx == ShotX(rad, ang)
                sy == ShotY(rad, ang)
                hit == IsHit(sx, sy, TargetRadius(target_size[r]))
            IN /\ radius' = [radius EXCEPT ![r] = rad]
               /\ angle' = [angle EXCEPT ![r] = ang]
               /\ x' = [x EXCEPT ![r] = sx]
               /\ y' = [y EXCEPT ![r] = sy]
               /\ hits' = [hits EXCEPT ![r] = NextHits(@, hit, i[r])]
               /\ IF hit /\ Displayed(i[r])
                  THEN /\ hits_x' = [hits_x EXCEPT ![r] = Append(@, sx)]
                       /\ hits_y' = [hits_y EXCEPT ![r] = Append(@, sy)]
                  ELSE UNCHANGED <<hits_x, hits_y>>
               /\ IF ~hit /\ Displayed(i[r])
                  THEN /\ misses_x' = [misses_x EXCEPT ![r] = Append(@, sx)]
                       /\ misses_y' = [misses_y EXCEPT ![r] = Append(@, sy)]
                  ELSE UNCHANGED <<misses_x, misses_y>>
    /\ i' = [i EXCEPT ![r] = @ + 1]
    /\ UNCHANGED <<args, globals, pc, fig, title, raised>>

\* Lines 69-108 when simulation_shots # 0: the traces and the target are
\* added, the title is computed and the figure is returned.
SimulateReturn(r) ==
    /\ pc[r] = "loop"
    /\ i[r] >= simulation_shots
    /\ simulation_shots # 0
    /\ fig' = [fig EXCEPT ![r] = "titled"]
    /\ title' = [title EXCEPT ![r] = Percent(hits[r], simulation_shots)]
    /\ pc' = [pc EXCEPT ![r] = "done"]
    /\ UNCHANGED <<args, globals, rng, pos, i, hits, hits_x, hits_y,
                   misses_x, misses_y, shot, raised>>

\* Lines 69-105 when simulation_shots = 0: the traces and the target are
\* added, and hits / simulation_shots raises ZeroDivisionError.
SimulateRaise(r) ==
    /\ pc[r] = "loop"
    /\ i[r] >= simulation_shots
    /\ simulation_shots = 0
    /\ fig' = [fig EXCEPT ![r] = "traced"]
    /\ raised' = [raised EXCEPT ![r] = "ZeroDivisionError"]
    /\ pc' = [pc EXCEPT ![r] = "error"]
    /\ UNCHANGED <<args, globals, rng, pos, i, hits, hits_x, hits_y,
                   misses_x, misses_y, shot, title>>

\* ------------------------------------------------------------- inputs
\* What the_callback_function passes on is whatever the request holds: the
\* sliders offer 0..2000 m, 0..1 m and 0..5 MOA, the function takes any number.
Distances == {0, 1000}
TargetSizes == {0, 3878, 30000}
Moas == {0, 2, 4}
\* <<distance, target_size, moa>> with one negative argument each.
NegativeArgs == {<<-1000, 3878, 4>>, <<1000, -3000, 4>>, <<1000, 3878, -4>>}
Args == (Distances \X TargetSizes \X Moas) \cup NegativeArgs

\* The state before simulate_shots is entered.
InitLocals ==
    /\ pos = [r \in Runs |-> 0]
    /\ pc = [r \in Runs |-> "start"]
    /\ fig = [r \in Runs |-> "none"]
    /\ i = [r \in Runs |-> 0]
    /\ hits = [r \in Runs |-> 0]
    /\ hits_x = [r \in Runs |-> <<>>]
    /\ hits_y = [r \in Runs |-> <<>>]
    /\ misses_x = [r \in Runs |-> <<>>]
    /\ misses_y = [r \in Runs |-> <<>>]
    /\ radius = [r \in Runs |-> 0]
    /\ angle = [r \in Runs |-> 0]
    /\ x = [r \in Runs |-> 0]
    /\ y = [r \in Runs |-> 0]
    /\ title = [r \in Runs |-> "none"]
    /\ raised = [r \in Runs |-> "none"]

\* One invocation, with any arguments and any setting of the two globals.
Init ==
    /\ simulation_shots \in -1 .. MaxShots
    /\ shots \in 0 .. MaxCap
    /\ \E a \in Args :
         /\ distance = [r \in Runs |-> a[1]]
         /\ target_size = [r \in Runs |-> a[2]]
         /\ moa = [r \in Runs |-> a[3]]
    /\ rngDenom = RngDenom
    /\ tape = <<>>
    /\ InitLocals

Next ==
    \/ SimulateSetup(1)
    \/ SimulateShot(1)
    \/ SimulateReturn(1)
    \/ SimulateRaise(1)

Spec == Init /\ [][Next]_vars

\* ------------------------------------------------------------- two runs
\* Two invocations that read the same values of the random source, each at
\* its own position: the second with the arguments of the first, or with a
\* larger distance, or with a larger moa.
PairDistances == {0, 1000}
PairSizes == {1940, 3878}
PairMoas == {0, 2}

InitPair ==
    /\ simulation_shots = MaxShots
    /\ shots \in {0, MaxCap}
    /\ \E d \in PairDistances, s \in PairSizes, m \in PairMoas :
         \E more \in {<<0, 0>>, <<1000, 0>>, <<0, 2>>} :
           /\ distance = [r \in Runs |-> IF r = 1 THEN d ELSE d + more[1]]
           /\ target_size = [r \in Runs |-> s]
           /\ moa = [r \in Runs |-> IF r = 1 THEN m ELSE m + more[2]]
    /\ rngDenom = RngDenom
    /\ tape = <<>>
    /\ InitLocals

\* The steps of the two invocations interleave in any order.
NextPair ==
    \/ SimulateSetup(1)
    \/ SimulateShot(1)
    \/ SimulateReturn(1)
    \/ SimulateSetup(2)
    \/ SimulateShot(2)
    \/ SimulateReturn(2)

SpecPair == InitPair /\ [][NextPair]_vars

\* ------------------------------------------------------------- sweep
\* One invocation whose random source is evenly spread: the radius value of
\* shot j is ((j + off) % n) / n, every value k / n exactly once over the n
\* shots, and the angle value is ((j * off) % n) / n.
SweepArgs == {500, 1000, 2000} \X {0, 3000, 6000, 30000} \X {2, 4}

SweepTape(n, off) ==
    [k \in 1 .. 2 * n |->
        IF k % 2 = 1 THEN (((k - 1) \div 2) + off) % n
        ELSE (((k - 2) \div 2) * off) % n]

InitSweep ==
    /\ simulation_shots = SweepShots
    /\ shots = 0
    /\ \E a \in SweepArgs :
         /\ distance = [r \in Runs |-> a[1]]
         /\ target_size = [r \in Runs |-> a[2]]
         /\ moa = [r \in Runs |-> a[3]]
    /\ rngDenom = SweepShots
    /\ \E off \in 0 .. (SweepShots - 1) : tape = SweepTape(SweepShots, off)
    /\ InitLocals

NextSweep ==
    \/ SimulateSetup(1)
    \/ SimulateShot(1)
    \/ SimulateReturn(1)

SpecSweep == InitSweep /\ [][NextSweep]_vars

\* ------------------------------------------------------------- the shots drawn
\* Shot j (from 0) of run r, from the values the random source gave it:
\* value 2j + 1 for the radius, value 2j + 2 for the angle.
DrawnRadius(r, j) == ShotRadius(distance[r], moa[r], tape[2 * j + 1], rngDenom)
DrawnAngle(r, j) == ShotAngle(tape[2 * j + 2], rngDenom)
DrawnX(r, j) == ShotX(DrawnRadius(r, j), DrawnAngle(r, j))
DrawnY(r, j) == ShotY(DrawnRadius(r, j), DrawnAngle(r, j))
DrawnDist(r, j) == ShotDist(DrawnX(r, j), DrawnY(r, j))
DrawnHit(r, j) == DrawnDist(r, j) <= TargetRadius(target_size[r])

\* The number of hits among the first n shots of run r.
HitCount(r, n) == Cardinality({j \in 0 .. (n - 1) : DrawnHit(r, j)})

\* The x (or y) of the hits (or the misses) among the first n shots of run r,
\* in the order of the draws.
RECURSIVE Shown(_, _, _, _)
Shown(r, n, wantHit, axis) ==
    IF n <= 0 THEN <<>>
    ELSE LET before == Shown(r, n - 1, wantHit, axis)
             j == n - 1
         IN IF DrawnHit(r, j) = wantHit
            THEN Append(before, IF axis = "x" THEN DrawnX(r, j) ELSE DrawnY(r, j))
            ELSE before

ListsAre(r, n) ==
    /\ hits_x[r] = Shown(r, n, TRUE, "x")
    /\ hits_y[r] = Shown(r, n, TRUE, "y")
    /\ misses_x[r] = Shown(r, n, FALSE, "x")
    /\ misses_y[r] = Shown(r, n, FALSE, "y")

\* ------------------------------------------------------------- claims

\* C1: when a run with simulation_shots >= 1 has finished, the two displayed
\* lists hold min(simulation_shots, shots) points together, they are the shots
\* of index 0 .. shots - 1 and no later one, and each list is in draw order.
C1_DisplayCap ==
    (pc[1] = "done" /\ simulation_shots >= 1) =>
        LET n == Min(simulation_shots, shots)
        IN /\ Len(hits_x[1]) + Len(misses_x[1]) = n
           /\ Len(hits_y[1]) + Len(misses_y[1]) = n
           /\ ListsAre(1, n)

\* A finished run that drew more shots than it displays, with a displayed
\* hit and a later hit that is not displayed.
C1_Witness ==
    /\ pc[1] = "done"
    /\ 1 <= shots /\ shots < simulation_shots
    /\ Len(hits_x[1]) >= 1
    /\ hits[1] > Len(hits_x[1])

\* C2: a negative distance, target size or moa is rejected before the first
\* random draw: no value is drawn, no shot reaches the lists and no
\* probability is returned (stated of the runs with simulation_shots >= 1).
C2_NegativeRejected ==
    (/\ distance[1] < 0 \/ target_size[1] < 0 \/ moa[1] < 0
     /\ simulation_shots >= 1) =>
        /\ pos[1] = 0 /\ tape = <<>>
        /\ hits_x[1] = <<>> /\ misses_x[1] = <<>>
        /\ pc[1] # "done"

\* C3: simulation_shots < 1 is rejected before any sampling: the division
\* hits / simulation_shots is never reached and no probability is returned
\* (stated of the runs whose three arguments are valid).
C3_NoShotsRejected ==
    (/\ simulation_shots < 1
     /\ distance[1] >= 0 /\ target_size[1] >= 0 /\ moa[1] >= 0) =>
        /\ pos[1] = 0
        /\ raised[1] # "ZeroDivisionError"
        /\ pc[1] # "done"

\* C4: with moa = 0 or distance = 0, a target size >= 0 and
\* simulation_shots >= 1, the run raises nothing, every shot lands at (0, 0)
\* and is a hit, no miss is displayed, and the run returns after
\* simulation_shots shots with the probability 100%.
C4_Degenerate ==
    (/\ moa[1] = 0 \/ distance[1] = 0
     /\ target_size[1] >= 0
     /\ simulation_shots >= 1) =>
        /\ raised[1] = "none" /\ pc[1] # "error"
        /\ pc[1] = "loop" => i[1] <= simulation_shots
        /\ \A j \in 0 .. (i[1] - 1) : DrawnX(1, j) = 0 /\ DrawnY(1, j) = 0
        /\ pc[1] \in {"loop", "done"} => hits[1] = i[1]
        /\ misses_x[1] = <<>> /\ misses_y[1] = <<>>
        /\ pc[1] = "done" => i[1] = simulation_shots /\ title[1] = 10000

\* A finished degenerate run with a target of diameter 0.
C4_Witness ==
    /\ pc[1] = "done"
    /\ moa[1] = 0 /\ distance[1] > 0
    /\ target_size[1] = 0
    /\ simulation_shots = MaxShots
    /\ title[1] = 10000

\* C5: when a run with simulation_shots >= 1 has finished, hits is the number
\* of the simulation_shots draws that are hits, 0 <= hits <= simulation_shots,
\* and the percentage returned is hits / simulation_shots (to the 0.01% it is
\* rounded to), between 0% and 100%: 0% with no hit, 100% with only hits.
C5_Probability ==
    (pc[1] = "done" /\ simulation_shots >= 1) =>
        /\ i[1] = simulation_shots
        /\ hits[1] = HitCount(1, simulation_shots)
        /\ 0 <= hits[1] /\ hits[1] <= simulation_shots
        /\ title[1] \in 0 .. 10000
        /\ 2 * Abs(title[1] * simulation_shots - hits[1] * 10000) <= simulation_shots
        /\ hits[1] = 0 => title[1] = 0
        /\ hits[1] = simulation_shots => title[1] = 10000

\* A finished run with hits and misses: a probability strictly between.
C5_Witness ==
    /\ pc[1] = "done"
    /\ 0 < hits[1] /\ hits[1] < simulation_shots
    /\ 0 < title[1] /\ title[1] < 10000

\* ------------------------------------------------------------- sweep claims
\* The radius of the dispersion cone and of the target in a run.
max_radius(r) == MaxRadius(distance[r], moa[r])
target_radius(r) == TargetRadius(target_size[r])

\* min(1, target_radius / max_radius), in thousandths (max_radius > 0).
LinearRatio(r) == Min(1000, (target_radius(r) * 1000) \div max_radius(r))

\* min(1, (target_radius / max_radius)^2), in thousandths (max_radius > 0).
SquareRatio(r) == (LinearRatio(r) * LinearRatio(r)) \div 1000

\* The radius values of the first n shots are the n values 0/n .. (n-1)/n,
\* each exactly once.
EvenlySpread(n) ==
    /\ rngDenom = n
    /\ Len(tape) >= 2 * n
    /\ {tape[2 * j + 1] : j \in 0 .. (n - 1)} = 0 .. (n - 1)

\* C6 as stated: with the radius values evenly spread and max_radius > 0, the
\* hit fraction is min(1, (target_radius / max_radius)^2), to within two
\* steps 1/n of the grid of random values.
C6_SquareLaw ==
    (/\ pc[1] = "done"
     /\ EvenlySpread(simulation_shots)
     /\ max_radius(1) > 0) =>
        Abs(hits[1] * 1000 - simulation_shots * SquareRatio(1))
            <= 2 * 1000 + simulation_shots

\* C6 as amended: under the same conditions the hit fraction is
\* min(1, target_radius / max_radius), to within two steps 1/n of the grid.
C6_LinearLaw ==
    (/\ pc[1] = "done"
     /\ EvenlySpread(simulation_shots)
     /\ max_radius(1) > 0) =>
        Abs(hits[1] * 1000 - simulation_shots * LinearRatio(1))
            <= 2 * 1000 + simulation_shots

\* The run of section 8's scenario (1000 m, 0.3 m, 4 MOA) has finished, with
\* about a quarter of the shots hits.
C6_Witness ==
    /\ pc[1] = "done"
    /\ EvenlySpread(simulation_shots)
    /\ distance[1] = 1000 /\ target_size[1] = 3000 /\ moa[1] = 4
    /\ max_radius(1) = 5818
    /\ 4 * hits[1] >= simulation_shots
    /\ 10 * hits[1] <= 3 * simulation_shots + 10

\* ------------------------------------------------------------- two-run claims
BothDone == pc[1] = "done" /\ pc[2] = "done"

SameArgs ==
    /\ distance[2] = distance[1]
    /\ target_size[2] = target_size[1]
    /\ moa[2] = moa[1]

\* Run 2 differs from run 1 by a larger distance alone or a larger moa alone.
LargerCone ==
    /\ target_size[2] = target_size[1]
    /\ \/ distance[2] > distance[1] /\ moa[2] = moa[1]
       \/ moa[2] > moa[1] /\ distance[2] = distance[1]

\* C7 as stated: on the same random values, the run with the larger moa (or
\* the larger distance) returns a strictly smaller probability.
C7_StrictlyDecreasing ==
    (BothDone /\ LargerCone) => title[2] < title[1]

\* C7 as amended: on the same random values, the run with the larger moa (or
\* the larger distance) returns a probability that is not larger: every shot
\* that hits in it hits in the other run too.
C7_NonIncreasing ==
    (BothDone /\ LargerCone) =>
        /\ title[2] <= title[1]
        /\ hits[2] <= hits[1]
        /\ \A j \in 0 .. (simulation_shots - 1) : DrawnHit(2, j) => DrawnHit(1, j)

\* The larger cone has lost hits.
C7_Witness ==
    /\ BothDone /\ LargerCone
    /\ distance[1] > 0 /\ moa[1] > 0
    /\ 0 < title[2] /\ title[2] < title[1]

\* C8: a run consumes two random values a shot, and two runs with the same
\* arguments that read the same random values are in the same state after
\* the same number of shots: at the end they return the same probability and
\* the same displayed lists, element for element.
C8_Deterministic ==
    /\ \A r \in Runs : pos[r] = 2 * i[r]
    /\ (SameArgs /\ pc[1] = pc[2] /\ i[1] = i[2]) =>
        /\ hits[2] = hits[1]
        /\ hits_x[2] = hits_x[1] /\ hits_y[2] = hits_y[1]
        /\ misses_x[2] = misses_x[1] /\ misses_y[2] = misses_y[1]
        /\ x[2] = x[1] /\ y[2] = y[1]
        /\ title[2] = title[1]
    /\ (SameArgs /\ BothDone) =>
        /\ i[2] = i[1]
        /\ pos[2] = pos[1] /\ pos[1] = Len(tape)

\* Two finished runs with the same arguments, with hits and misses displayed.
C8_Witness ==
    /\ BothDone /\ SameArgs
    /\ Len(hits_x[2]) >= 1 /\ Len(misses_x[2]) >= 1
    /\ 0 < title[2] /\ title[2] < 10000

\* ------------------------------------------------------------- loop claims
\* The four lists of run r hold the first n shots, and after them the shot
\* (sx, sy) in the hit lists (toHits) or in the miss lists.
ListsAreWith(r, n, toHits, sx, sy) ==
    /\ hits_x[r] = Shown(r, n, TRUE, "x") \o (IF toHits THEN <<sx>> ELSE <<>>)
    /\ hits_y[r] = Shown(r, n, TRUE, "y") \o (IF toHits THEN <<sy>> ELSE <<>>)
    /\ misses_x[r] = Shown(r, n, FALSE, "x") \o (IF toHits THEN <<>> ELSE <<sx>>)
    /\ misses_y[r] = Shown(r, n, FALSE, "y") \o (IF toHits THEN <<>> ELSE <<sy>>)

\* C9: a shot at a distance (x^2 + y^2)^0.5 from the centre equal to (or
\* below) target_size / 2 is a hit: it adds 1 to hits and, if displayed, goes
\* to the end of the hit lists and not to the miss lists; a shot is a miss
\* exactly when its distance is strictly greater.  Stated of the shot (x, y)
\* the loop has just processed, index i - 1.
C9_BoundaryInclusive ==
    (pc[1] \in {"loop", "done"} /\ i[1] >= 1) =>
        LET j == i[1] - 1
            d == Sqrt(x[1] * x[1] + y[1] * y[1])
        IN /\ x[1] = DrawnX(1, j) /\ y[1] = DrawnY(1, j)
           /\ d <= target_radius(1) =>
                /\ hits[1] = HitCount(1, j) + 1
                /\ IF j < shots THEN ListsAreWith(1, j, TRUE, x[1], y[1])
                   ELSE ListsAre(1, shots)
           /\ d > target_radius(1) =>
                /\ hits[1] = HitCount(1, j)
                /\ IF j < shots THEN ListsAreWith(1, j, FALSE, x[1], y[1])
                   ELSE ListsAre(1, shots)

\* A displayed shot off the centre, exactly on the target's edge, is the last
\* of the hit lists.
C9_Witness ==
    /\ pc[1] = "loop" /\ i[1] >= 1 /\ i[1] <= shots
    /\ target_radius(1) > 0
    /\ Sqrt(x[1] * x[1] + y[1] * y[1]) = target_radius(1)
    /\ Len(hits_x[1]) >= 1
    /\ hits_x[1][Len(hits_x[1])] = x[1]
    /\ hits_y[1][Len(hits_y[1])] = y[1]
    /\ Len(misses_x[1]) < i[1]

\* A step of the loop of run 1.
LoopStep == pc[1] = "loop" /\ i'[1] = i[1] + 1

HitListsUnchanged == hits_x'[1] = hits_x[1] /\ hits_y'[1] = hits_y[1]
MissListsUnchanged == misses_x'[1] = misses_x[1] /\ misses_y'[1] = misses_y[1]

\* C10: in the loop, hits is the number of hits among all the shots processed
\* so far, whatever the display cap (so hits >= len(hits_x)); a shot of index
\* >= shots leaves the four lists as they are and adds 1 (a hit) or 0 (a miss)
\* to hits; a shot of index < shots is appended to exactly one pair of lists,
\* the hit lists exactly when it is a hit.
C10_CapLeavesCount ==
    /\ [](pc[1] \in {"loop", "done"} =>
            /\ hits[1] = HitCount(1, i[1])
            /\ hits[1] >= Len(hits_x[1])
            /\ Len(hits_x[1]) = HitCount(1, Min(i[1], shots))
            /\ Len(hits_y[1]) = Len(hits_x[1])
            /\ Len(misses_x[1]) = Min(i[1], shots) - Len(hits_x[1])
            /\ Len(misses_y[1]) = Len(misses_x[1]))
    /\ [][LoopStep =>
            /\ i[1] >= shots =>
                 /\ HitListsUnchanged /\ MissListsUnchanged
                 /\ hits'[1] \in {hits[1], hits[1] + 1}
            /\ i[1] < shots =>
                 \/ /\ hits'[1] = hits[1] + 1
                    /\ hits_x'[1] = Append(hits_x[1], x'[1])
                    /\ hits_y'[1] = Append(hits_y[1], y'[1])
                    /\ MissListsUnchanged
                 \/ /\ hits'[1] = hits[1]
                    /\ misses_x'[1] = Append(misses_x[1], x'[1])
                    /\ misses_y'[1] = Append(misses_y[1], y'[1])
                    /\ HitListsUnchanged
       ]_vars

\* A hit past the display cap has been counted and not displayed.
C10_Witness ==
    /\ pc[1] = "loop"
    /\ shots >= 1 /\ i[1] > shots
    /\ DrawnHit(1, i[1] - 1)
    /\ Len(hits_x[1]) + Len(misses_x[1]) = shots
    /\ hits[1] > Len(hits_x[1])

====
